---- MODULE Spec2Model ----
(***************************************************************************)
(* quill backend: TransitEventBuffer (growable ring buffer of transit      *)
(* events with decay-driven compaction and shrink-on-request) and          *)
(* FormatBufferPool (expand-only ring of reusable format buffers), from    *)
(* include/quill/backend/TransitEventBuffer.h.                             *)
(***************************************************************************)
EXTENDS Integers, Sequences, FiniteSets, TLC

(* ---- bounds of the exploration ---- *)
MaxInitialCapacity == 2   \* constructor arguments are drawn from 1..MaxInitialCapacity
MaxPush == 7              \* events written over a run; the events are 1..MaxPush
MaxTicks == 5             \* the clock runs over MaxTicks half-millisecond ticks
MaxDecayMs == 1           \* decay_period arguments are 0..MaxDecayMs milliseconds
MaxPoolCapacity == 2      \* FormatBufferPool constructor arguments are 1..MaxPoolCapacity
MaxBorrow == 4            \* borrow_buffer() calls over a run

(* ---- program constants ---- *)
NsPerMs == 1000000        \* milliseconds -> nanoseconds, the conversion in ts - last <= decay_period

VARIABLES
    buf,       \* the TransitEventBuffer: a record of its data members
    slot,      \* index handed out by back() and not yet published, or NoSlot
    pushed,    \* number of events written so far (event k is the k-th written)
    observed,  \* the events seen through front(), in order
    clock,     \* the backend's clock, in nanoseconds (the ts arguments)
    window_peak, \* largest size() seen by update_size() since the call that armed the timer
    window_open, \* TRUE from the update_size() call that arms the timer until a call
               \* sees more than capacity/2 events, back() expands, or update_size() resizes
    since_back,  \* what update_size()/try_shrink() calls did since the latest back()
    moves,     \* the moves made: which kind, and the source as the move left it
    last,      \* the last operation: its name, the buffer before it and its arguments
    pool,      \* the FormatBufferPool: a record of its data members
    held,      \* the format buffers the borrowers own
    borrows,   \* number of borrow_buffer() calls so far
    returns,   \* number of return_buffer() calls the pool accepted so far
    allocated, \* number of format buffers allocated so far (buffer k is the k-th)
    returned,  \* per slot: the buffer last passed to return_buffer() there, until re-borrowed
    pool_last  \* the last pool operation, with the pool before it and what it moved

BufferVars == <<buf, slot, pushed, observed, clock, window_peak, window_open,
               since_back, moves, last>>

PoolVars == <<pool, held, borrows, returns, allocated, returned, pool_last>>

vars == <<buf, slot, pushed, observed, clock, window_peak, window_open,
          since_back, moves, last,
          pool, held, borrows, returns, allocated, returned, pool_last>>

NoSlot == -1
EmptyEvent == 0           \* a default-constructed TransitEvent

Max(a, b) == IF a > b THEN a ELSE b

RECURSIVE BitAnd(_, _)
BitAnd(a, b) ==
    IF a = 0 \/ b = 0 THEN 0
    ELSE (a % 2) * (b % 2) + 2 * BitAnd(a \div 2, b \div 2)

RECURSIVE GrowToPowerOfTwo(_, _)
GrowToPowerOfTwo(result, n) ==
    IF result < n THEN GrowToPowerOfTwo(2 * result, n) ELSE result

\* quill/core/MathUtilities.h: the smallest power of two >= n
next_power_of_two(n) == GrowToPowerOfTwo(1, n)

RECURSIVE is_power_of_two(_)
is_power_of_two(n) ==
    IF n <= 0 THEN FALSE
    ELSE IF n = 1 THEN TRUE
    ELSE n % 2 = 0 /\ is_power_of_two(n \div 2)

(* ---- TransitEventBuffer ---- *)

\* explicit TransitEventBuffer(size_t initial_capacity), with the member initialisers
TransitEventBuffer(initial_capacity) ==
    LET ic == next_power_of_two(initial_capacity) IN
    [ initial_capacity    |-> ic,
      capacity            |-> ic,
      storage             |-> [i \in 0..(ic - 1) |-> EmptyEvent],
      last_capacity_check |-> 0,
      max_size            |-> 0,
      mask                |-> ic - 1,
      reader_pos          |-> 0,
      writer_pos          |-> 0,
      shrink_requested    |-> FALSE ]

size(b) == b.writer_pos - b.reader_pos

capacity(b) == b.capacity

empty(b) == b.reader_pos = b.writer_pos

\* the events of the queue, oldest first, as front()/pop_front() would deliver them
Contents(b) == [i \in 1..size(b) |-> b.storage[BitAnd(b.reader_pos + i - 1, b.mask)]]

\* (variant) the loop copies from the head of the old array, ignoring reader_pos
MoveToNewStorage_FromHead(b, new_capacity, current_size) ==
    [i \in 0..(new_capacity - 1) |->
        IF i < current_size THEN b.storage[BitAnd(i, b.mask)]
        ELSE EmptyEvent]

\* the loop that moves the live events to the head of a new array of new_capacity slots
MoveToNewStorage(b, new_capacity, current_size) ==
    [i \in 0..(new_capacity - 1) |->
        IF i < current_size THEN b.storage[BitAnd(b.reader_pos + i, b.mask)]
        ELSE EmptyEvent]

\* (variant) the expansion leaves the decay timer armed
_expand_KeepsTimer(b) ==
    LET new_capacity == b.capacity * 2
        current_size == size(b)
    IN [b EXCEPT !.storage = MoveToNewStorage(b, new_capacity, current_size),
                 !.capacity = new_capacity,
                 !.mask = new_capacity - 1,
                 !.writer_pos = current_size,
                 !.reader_pos = 0]

\* (variant) the expansion forgets to recompute the mask
_expand_StaleMask(b) ==
    LET new_capacity == b.capacity * 2
        current_size == size(b)
    IN [b EXCEPT !.storage = MoveToNewStorage(b, new_capacity, current_size),
                 !.capacity = new_capacity,
                 !.writer_pos = current_size,
                 !.reader_pos = 0,
                 !.last_capacity_check = 0]

_expand(b) ==
    LET new_capacity == b.capacity * 2
        current_size == size(b)
    IN [b EXCEPT !.storage = MoveToNewStorage(b, new_capacity, current_size),
                 !.capacity = new_capacity,
                 !.mask = new_capacity - 1,
                 !.writer_pos = current_size,
                 !.reader_pos = 0,
                 !.last_capacity_check = 0]

\* (variant) back() expands one slot early
back_ExpandsEarly(b) == IF b.capacity <= size(b) + 1 THEN _expand(b) ELSE b

\* (variant) back() never expands
back_NeverExpands(b) == b

\* back(): the buffer after the call; the slot returned is BackSlot of that buffer
back(b) == IF b.capacity = size(b) THEN _expand(b) ELSE b

BackSlot(b) == BitAnd(b.writer_pos, b.mask)

push_back(b) == [b EXCEPT !.writer_pos = @ + 1]

\* front() on a non-empty buffer: the slot returned
FrontSlot(b) == BitAnd(b.reader_pos, b.mask)

pop_front(b) == [b EXCEPT !.reader_pos = @ + 1]

\* (variant) the decay policy resizes as soon as decay_period has elapsed
Decay_ResizesAtThreshold(b, ts, decay_period) ==
    LET current_size == size(b)
        previous_capacity == b.capacity \div 2
    IN
    IF current_size > previous_capacity
    THEN [b EXCEPT !.max_size = 0, !.last_capacity_check = 0]
    ELSE
      LET b1 == [b EXCEPT !.max_size = Max(b.max_size, current_size)] IN
      IF b1.last_capacity_check = 0
      THEN [b1 EXCEPT !.last_capacity_check = ts]
      ELSE IF ts - b1.last_capacity_check < decay_period * NsPerMs
      THEN b1
      ELSE
        LET new_capacity == next_power_of_two(b1.max_size) IN
        [b1 EXCEPT !.storage = MoveToNewStorage(b1, new_capacity, current_size),
                   !.capacity = new_capacity,
                   !.mask = new_capacity - 1,
                   !.writer_pos = current_size,
                   !.reader_pos = 0,
                   !.last_capacity_check = 0,
                   !.max_size = 0]

\* update_size() past its two early returns: the decay policy
Decay(b, ts, decay_period) ==
    LET current_size == size(b)
        previous_capacity == b.capacity \div 2
    IN
    IF current_size > previous_capacity
    THEN [b EXCEPT !.max_size = 0, !.last_capacity_check = 0]
    ELSE
      LET b1 == [b EXCEPT !.max_size = Max(b.max_size, current_size)] IN
      IF b1.last_capacity_check = 0
      THEN [b1 EXCEPT !.last_capacity_check = ts]
      ELSE IF ts - b1.last_capacity_check <= decay_period * NsPerMs
      THEN b1
      ELSE
        LET new_capacity == next_power_of_two(b1.max_size) IN
        [b1 EXCEPT !.storage = MoveToNewStorage(b1, new_capacity, current_size),
                   !.capacity = new_capacity,
                   !.mask = new_capacity - 1,
                   !.writer_pos = current_size,
                   !.reader_pos = 0,
                   !.last_capacity_check = 0,
                   !.max_size = 0]

\* (variant) update_size() without the capacity == initial_capacity return
update_size_NoInitialCheck(b, ts, decay_period) ==
    IF decay_period = 0 THEN b
    ELSE Decay(b, ts, decay_period)

update_size(b, ts, decay_period) ==
    IF decay_period = 0 THEN b
    ELSE IF b.capacity = b.initial_capacity THEN b
    ELSE Decay(b, ts, decay_period)

\* (variant) try_shrink() clears the request only when it reallocates
try_shrink_ClearsOnRealloc(b) ==
    IF b.shrink_requested /\ empty(b)
    THEN
      IF b.capacity > b.initial_capacity
      THEN [b EXCEPT !.storage = [i \in 0..(b.initial_capacity - 1) |-> EmptyEvent],
                     !.capacity = b.initial_capacity,
                     !.mask = b.initial_capacity - 1,
                     !.writer_pos = 0,
                     !.reader_pos = 0,
                     !.shrink_requested = FALSE]
      ELSE b
    ELSE b

\* (variant) try_shrink() does not look at empty()
try_shrink_IgnoresEmpty(b) ==
    IF b.shrink_requested
    THEN
      LET b1 == IF b.capacity > b.initial_capacity
                THEN [b EXCEPT !.storage = [i \in 0..(b.initial_capacity - 1) |-> EmptyEvent],
                               !.capacity = b.initial_capacity,
                               !.mask = b.initial_capacity - 1,
                               !.writer_pos = 0,
                               !.reader_pos = 0]
                ELSE b
      IN [b1 EXCEPT !.shrink_requested = FALSE]
    ELSE b

\* (variant) try_shrink() shrinks an empty buffer whether or not a request is pending
try_shrink_Unrequested(b) ==
    IF empty(b)
    THEN
      LET b1 == IF b.capacity > b.initial_capacity
                THEN [b EXCEPT !.storage = [i \in 0..(b.initial_capacity - 1) |-> EmptyEvent],
                               !.capacity = b.initial_capacity,
                               !.mask = b.initial_capacity - 1,
                               !.writer_pos = 0,
                               !.reader_pos = 0]
                ELSE b
      IN [b1 EXCEPT !.shrink_requested = FALSE]
    ELSE b

request_shrink(b) == [b EXCEPT !.shrink_requested = TRUE]

try_shrink(b) ==
    IF b.shrink_requested /\ empty(b)
    THEN
      LET b1 == IF b.capacity > b.initial_capacity
                THEN [b EXCEPT !.storage = [i \in 0..(b.initial_capacity - 1) |-> EmptyEvent],
                               !.capacity = b.initial_capacity,
                               !.mask = b.initial_capacity - 1,
                               !.writer_pos = 0,
                               !.reader_pos = 0]
                ELSE b
      IN [b1 EXCEPT !.shrink_requested = FALSE]
    ELSE b

\* other after TransitEventBuffer(TransitEventBuffer&&) or operator=(TransitEventBuffer&&):
\* std::move took its array, and the four assignments zeroed the rest
MovedFrom(other) ==
    [other EXCEPT !.capacity = 0,
                  !.storage = [i \in {} |-> EmptyEvent],
                  !.mask = 0,
                  !.reader_pos = 0,
                  !.writer_pos = 0]

\* (variant) the move takes the array and its size but not the positions
MovedInto_DropsPositions(this, other) ==
    [this EXCEPT !.capacity = other.capacity,
                 !.storage = other.storage,
                 !.mask = other.mask]

\* the five members both move operations take from other
MovedInto(this, other) ==
    [this EXCEPT !.capacity = other.capacity,
                 !.storage = other.storage,
                 !.mask = other.mask,
                 !.reader_pos = other.reader_pos,
                 !.writer_pos = other.writer_pos]

\* TransitEventBuffer(TransitEventBuffer&& other): the members missing from the
\* initialiser list take their default member initialisers, and _initial_capacity,
\* which has none, is left with an indeterminate value
MoveConstructor(other, indeterminate) ==
    MovedInto([ initial_capacity    |-> indeterminate,
                capacity            |-> 0,
                storage             |-> [i \in {} |-> EmptyEvent],
                last_capacity_check |-> 0,
                max_size            |-> 0,
                mask                |-> 0,
                reader_pos          |-> 0,
                writer_pos          |-> 0,
                shrink_requested    |-> FALSE ], other)

\* operator=(TransitEventBuffer&& other) with this != &other
MoveAssignment(this, other) == MovedInto(this, other)

\* update_size(ts, decay_period) on b replaces _storage by a new array
update_size_reallocates(b, ts, decay_period) ==
    /\ decay_period # 0
    /\ b.capacity # b.initial_capacity
    /\ size(b) <= b.capacity \div 2
    /\ b.last_capacity_check # 0
    /\ ts - b.last_capacity_check > decay_period * NsPerMs

\* try_shrink() on b replaces _storage by a new array
try_shrink_reallocates(b) ==
    b.shrink_requested /\ empty(b) /\ b.capacity > b.initial_capacity

(* ---- FormatBufferPool ---- *)

NoBuffer == [id |-> 0, size |-> 0]      \* a null std::unique_ptr<FormatBuffer>

\* what a borrower may leave in a format buffer: nothing, exactly 10 KiB, one byte more
BufferSizes == {0, 10 * 1024, 10 * 1024 + 1}

\* explicit FormatBufferPool(size_t initial_capacity)
FormatBufferPool(initial_capacity) ==
    LET c == next_power_of_two(initial_capacity) IN
    [ capacity   |-> c,
      storage    |-> [i \in 0..(c - 1) |-> NoBuffer],
      mask       |-> c - 1,
      reader_pos |-> 0,
      writer_pos |-> 0 ]

\* FormatBufferPool::_expand
FormatBufferPool_expand(p) ==
    LET new_capacity == p.capacity * 2
        current_size == size(p)
    IN [p EXCEPT !.storage = [i \in 0..(new_capacity - 1) |->
                                 IF i < current_size
                                 THEN p.storage[BitAnd(p.reader_pos + i, p.mask)]
                                 ELSE NoBuffer],
                 !.capacity = new_capacity,
                 !.mask = new_capacity - 1,
                 !.writer_pos = current_size,
                 !.reader_pos = 0]

\* (variant) the assertion tests for a full pool instead
ReturnAsserted_NotFull(p) == size(p) # p.capacity

\* assert(_reader_pos != _writer_pos) in return_buffer(): TRUE when the assertion passes
ReturnAsserted(p) == p.reader_pos # p.writer_pos

\* (variant) return_buffer() releases the slot only when it keeps the buffer
return_buffer_SkipsDiscarded(p, buffer) ==
    IF buffer.size > 10 * 1024
    THEN [p EXCEPT !.storage[BitAnd(p.reader_pos, p.mask)] = buffer,
                   !.reader_pos = @ + 1]
    ELSE p

\* (variant) return_buffer() keeps a buffer of exactly 10 KiB too
return_buffer_AtThreshold(p, buffer) ==
    LET p1 == IF buffer.size >= 10 * 1024
              THEN [p EXCEPT !.storage[BitAnd(p.reader_pos, p.mask)] = buffer]
              ELSE p
    IN [p1 EXCEPT !.reader_pos = @ + 1]

\* return_buffer(buffer) once the assertion has passed
return_buffer(p, buffer) ==
    LET p1 == IF buffer.size > 10 * 1024
              THEN [p EXCEPT !.storage[BitAnd(p.reader_pos, p.mask)] = buffer]
              ELSE p
    IN [p1 EXCEPT !.reader_pos = @ + 1]

\* (variant) borrow_buffer() hands the buffer out and leaves it in the slot as well
borrow_buffer_KeepsSlot(p, fresh) ==
    LET p1 == IF p.capacity = size(p) THEN FormatBufferPool_expand(p) ELSE p
        i == BitAnd(p1.writer_pos, p1.mask)
        format_buffer == IF p1.storage[i] = NoBuffer THEN fresh ELSE p1.storage[i]
    IN [ pool   |-> [p1 EXCEPT !.writer_pos = @ + 1],
         buffer |-> format_buffer ]

\* the pool as borrow_buffer() finds it once a full pool has been expanded
BorrowFrom(p) == IF p.capacity = size(p) THEN FormatBufferPool_expand(p) ELSE p

\* borrow_buffer(): the pool after the call and the buffer returned; fresh is the
\* buffer std::make_unique<FormatBuffer>() yields when the slot holds none
borrow_buffer(p, fresh) ==
    LET p1 == BorrowFrom(p)
        i == BitAnd(p1.writer_pos, p1.mask)
        format_buffer == IF p1.storage[i] = NoBuffer THEN fresh ELSE p1.storage[i]
    IN [ pool   |-> [p1 EXCEPT !.writer_pos = @ + 1, !.storage[i] = NoBuffer],
         buffer |-> format_buffer ]

(* ---- the operations as steps ---- *)

Op(name, pre, ts, decay) == [op |-> name, pre |-> pre, ts |-> ts, decay |-> decay]

\* The occupancy update_size() has observed over the current decay window: a call
\* that returns before reading size() observes nothing, a call that finds the
\* timer disarmed opens a window, a call that sees more than capacity/2 closes it.
ObservedPeak(b, decay_period, peak) ==
    IF decay_period = 0 \/ b.capacity = b.initial_capacity THEN peak
    ELSE IF size(b) > b.capacity \div 2 THEN 0
    ELSE IF b.last_capacity_check = 0 THEN size(b)
    ELSE Max(peak, size(b))

\* Whether a decay window is open after update_size(ts, decay_period) on b: a call
\* that returns before looking at the occupancy leaves it as it was, a call that
\* sees more than capacity/2 closes it, a call that finds the timer disarmed opens
\* it, and the call that resizes closes it.
WindowOpen(b, ts, decay_period, open) ==
    IF decay_period = 0 \/ b.capacity = b.initial_capacity THEN open
    ELSE IF size(b) > b.capacity \div 2 THEN FALSE
    ELSE IF b.last_capacity_check = 0 THEN TRUE
    ELSE open /\ update_size(b, ts, decay_period).last_capacity_check # 0

Timestamps == {500000 * k : k \in 1..MaxTicks}

PoolOp(name, pre, buffer, offered, lost) ==
    [op |-> name, pre |-> pre, buffer |-> buffer, offered |-> offered, lost |-> lost]

BufferInit(n) ==
    /\ buf = TransitEventBuffer(n)
    /\ slot = NoSlot
    /\ pushed = 0
    /\ observed = <<>>
    /\ clock = 500000
    /\ window_peak = 0
    /\ window_open = FALSE
    /\ since_back = {}
    /\ moves = <<>>
    /\ last = Op("construct", buf, 0, 0)

PoolInit(n) ==
    /\ pool = FormatBufferPool(n)
    /\ held = {}
    /\ borrows = 0
    /\ returns = 0
    /\ allocated = 0
    /\ returned = [i \in 0..(pool.capacity - 1) |-> NoBuffer]
    /\ pool_last = PoolOp("construct", pool, NoBuffer, NoBuffer, {})

Init ==
    /\ \E n \in 1..MaxInitialCapacity : BufferInit(n)
    /\ PoolInit(1)

\* the producer asks for the next writable slot
Back ==
    /\ slot = NoSlot
    /\ pushed < MaxPush
    /\ buf' = back(buf)
    /\ slot' = BackSlot(buf')
    /\ window_open' = (window_open /\ buf.capacity # size(buf))
    /\ since_back' = {}
    /\ last' = Op("back", buf, 0, 0)
    /\ UNCHANGED <<pushed, observed, clock, window_peak, moves>>
    /\ UNCHANGED PoolVars

\* the producer fills the slot it got from back() and publishes it
PushBack ==
    /\ slot # NoSlot
    /\ "reallocated" \notin since_back
    /\ slot \in DOMAIN buf.storage
    /\ buf' = push_back([buf EXCEPT !.storage[slot] = pushed + 1])
    /\ pushed' = pushed + 1
    /\ slot' = NoSlot
    /\ last' = Op("push_back", buf, 0, 0)
    /\ UNCHANGED <<observed, clock, window_peak, window_open, since_back, moves>>
    /\ UNCHANGED PoolVars

\* the consumer reads the oldest event through front() and releases it
PopFront ==
    /\ slot = NoSlot
    /\ ~empty(buf)
    /\ observed' = Append(observed, buf.storage[FrontSlot(buf)])
    /\ buf' = pop_front(buf)
    /\ last' = Op("pop_front", buf, 0, 0)
    /\ UNCHANGED <<slot, pushed, clock, window_peak, window_open, since_back, moves>>
    /\ UNCHANGED PoolVars

UpdateSize ==
    /\ slot = NoSlot
    /\ \E ts \in Timestamps, decay_period \in 0..MaxDecayMs :
          /\ ts >= clock
          /\ clock' = ts
          /\ buf' = update_size(buf, ts, decay_period)
          /\ window_peak' = ObservedPeak(buf, decay_period, window_peak)
          /\ window_open' = WindowOpen(buf, ts, decay_period, window_open)
          /\ last' = Op("update_size", buf, ts, decay_period)
    /\ UNCHANGED <<slot, pushed, observed, since_back, moves>>
    /\ UNCHANGED PoolVars

RequestShrink ==
    /\ slot = NoSlot
    /\ buf' = request_shrink(buf)
    /\ last' = Op("request_shrink", buf, 0, 0)
    /\ UNCHANGED <<slot, pushed, observed, clock, window_peak, window_open,
                   since_back, moves>>
    /\ UNCHANGED PoolVars

TryShrink ==
    /\ slot = NoSlot
    /\ buf' = try_shrink(buf)
    /\ last' = Op("try_shrink", buf, 0, 0)
    /\ UNCHANGED <<slot, pushed, observed, clock, window_peak, window_open,
                   since_back, moves>>
    /\ UNCHANGED PoolVars

Next ==
    \/ Back
    \/ PushBack
    \/ PopFront
    \/ UpdateSize
    \/ RequestShrink
    \/ TryShrink

Spec == Init /\ [][Next]_vars

(* ---- maintenance calls between back() and push_back() ---- *)

\* update_size() while the producer holds the pointer it got from back()
UpdateSizeBetween ==
    /\ slot # NoSlot
    /\ \E ts \in Timestamps, decay_period \in 0..MaxDecayMs :
          /\ ts >= clock
          /\ clock' = ts
          /\ buf' = update_size(buf, ts, decay_period)
          /\ window_peak' = ObservedPeak(buf, decay_period, window_peak)
          /\ window_open' = WindowOpen(buf, ts, decay_period, window_open)
          /\ since_back' = since_back \cup
                 (IF update_size_reallocates(buf, ts, decay_period)
                  THEN {"update_size", "reallocated"} ELSE {"update_size"})
          /\ last' = Op("update_size", buf, ts, decay_period)
    /\ UNCHANGED <<slot, pushed, observed, moves>>
    /\ UNCHANGED PoolVars

\* try_shrink() while the producer holds the pointer it got from back()
TryShrinkBetween ==
    /\ slot # NoSlot
    /\ buf' = try_shrink(buf)
    /\ since_back' = since_back \cup
           (IF try_shrink_reallocates(buf)
            THEN {"try_shrink", "reallocated"} ELSE {"try_shrink"})
    /\ last' = Op("try_shrink", buf, 0, 0)
    /\ UNCHANGED <<slot, pushed, observed, clock, window_peak, window_open, moves>>
    /\ UNCHANGED PoolVars

\* The producer fills the slot and publishes it after the array the pointer
\* points into was replaced.  The write goes through a dangling pointer: it is
\* lost, or it lands in some element of the current array.
PushBackStale ==
    /\ slot # NoSlot
    /\ "reallocated" \in since_back
    /\ \/ buf' = push_back(buf)
       \/ \E i \in DOMAIN buf.storage :
              buf' = push_back([buf EXCEPT !.storage[i] = pushed + 1])
    /\ pushed' = pushed + 1
    /\ slot' = NoSlot
    /\ last' = Op("push_back", buf, 0, 0)
    /\ UNCHANGED <<observed, clock, window_peak, window_open, since_back, moves>>
    /\ UNCHANGED PoolVars

\* an event was written through a dangling pointer: the behaviour of the program
\* is undefined from there on
Dangled == last.op = "push_back" /\ "reallocated" \in since_back

\* the maintenance calls are made only while a slot is outstanding, and a run ends
\* with the first write through a dangling pointer
BackDefined == ~Dangled /\ Back

PopFrontDefined == ~Dangled /\ PopFront

RequestShrinkDefined == ~Dangled /\ RequestShrink

NextBetween ==
    \/ BackDefined
    \/ PushBack
    \/ PopFrontDefined
    \/ RequestShrinkDefined
    \/ UpdateSizeBetween
    \/ TryShrinkBetween
    \/ PushBackStale

SpecBetween == Init /\ [][NextBetween]_vars

(* ---- moving the TransitEventBuffer ---- *)

\* the values an uninitialised _initial_capacity may be read as
Indeterminate == 0..(2 * MaxInitialCapacity)

Moved(kind, source) == [kind |-> kind, source |-> source]

\* buf is moved into a new TransitEventBuffer, which the run continues with
MoveConstruct ==
    /\ slot = NoSlot
    /\ moves = <<>>
    /\ \E indeterminate \in Indeterminate :
           buf' = MoveConstructor(buf, indeterminate)
    /\ moves' = <<Moved("construct", MovedFrom(buf))>>
    /\ last' = Op("move", buf, 0, 0)
    /\ UNCHANGED <<slot, pushed, observed, clock, window_peak, window_open, since_back>>
    /\ UNCHANGED PoolVars

\* buf is move-assigned to another TransitEventBuffer, newly constructed and
\* possibly asked to shrink, which the run continues with
MoveAssign ==
    /\ slot = NoSlot
    /\ moves = <<>>
    /\ \E n \in 1..MaxInitialCapacity, requested \in BOOLEAN :
           LET this == IF requested THEN request_shrink(TransitEventBuffer(n))
                       ELSE TransitEventBuffer(n)
           IN buf' = MoveAssignment(this, buf)
    /\ moves' = <<Moved("assign", MovedFrom(buf))>>
    /\ last' = Op("move", buf, 0, 0)
    /\ UNCHANGED <<slot, pushed, observed, clock, window_peak, window_open, since_back>>
    /\ UNCHANGED PoolVars

\* the buffer is filled, drained and shrunk on request, and moved once at any point
NextMove ==
    \/ Back
    \/ PushBack
    \/ PopFront
    \/ RequestShrink
    \/ TryShrink
    \/ MoveConstruct
    \/ MoveAssign

SpecMove == Init /\ [][NextMove]_vars

(* ---- the FormatBufferPool operations as steps ---- *)

\* the buffers a caller passed to return_buffer() that are above the retention size
Retained(slots) == {slots[i] : i \in DOMAIN slots} \ {b \in {slots[i] : i \in DOMAIN slots} : b.size <= 10 * 1024}

\* FALSE once an assertion has aborted the program (a build with assertions on)
Running == pool_last.op # "assertion_failed"

BorrowBuffer ==
    /\ Running
    /\ borrows < MaxBorrow
    /\ LET fresh == [id |-> allocated + 1, size |-> 0]
           r == borrow_buffer(pool, fresh)
           expanded == pool.capacity = size(pool)
           i == BitAnd(BorrowFrom(pool).writer_pos, BorrowFrom(pool).mask)
           slots == IF expanded
                    THEN [j \in 0..(2 * pool.capacity - 1) |-> NoBuffer]
                    ELSE returned
       IN /\ pool' = r.pool
          /\ held' = held \cup {r.buffer}
          /\ allocated' = IF r.buffer = fresh THEN allocated + 1 ELSE allocated
          /\ returned' = [slots EXCEPT ![i] = NoBuffer]
          /\ pool_last' = PoolOp("borrow_buffer", pool, r.buffer, slots[i],
                                 IF expanded THEN Retained(returned) ELSE {})
    /\ borrows' = borrows + 1
    /\ UNCHANGED returns
    /\ UNCHANGED BufferVars

\* a borrower formats a message into a buffer it holds
FormatInto ==
    /\ Running
    /\ \E b \in held, n \in BufferSizes :
          /\ n # b.size
          /\ held' = (held \ {b}) \cup {[b EXCEPT !.size = n]}
          /\ pool_last' = PoolOp("format", pool, [b EXCEPT !.size = n], NoBuffer, {})
    /\ UNCHANGED <<pool, borrows, returns, allocated, returned>>
    /\ UNCHANGED BufferVars

ReturnBuffer ==
    /\ Running
    /\ ReturnAsserted(pool)
    /\ \E b \in held :
          /\ pool' = return_buffer(pool, b)
          /\ held' = held \ {b}
          /\ returned' = [returned EXCEPT ![BitAnd(pool.reader_pos, pool.mask)] = b]
          /\ pool_last' = PoolOp("return_buffer", pool, b, NoBuffer, {})
    /\ returns' = returns + 1
    /\ UNCHANGED <<borrows, allocated>>
    /\ UNCHANGED BufferVars

PoolNext ==
    \/ BorrowBuffer
    \/ FormatInto
    \/ ReturnBuffer

InitPool ==
    /\ BufferInit(1)
    /\ \E n \in 1..MaxPoolCapacity : PoolInit(n)

SpecPool == InitPool /\ [][PoolNext]_vars

\* return_buffer() called where its assertion fails: the caller hands in a buffer
\* of its own (the pool has none on loan) and the program aborts
ReturnBufferAborts ==
    /\ Running
    /\ ~ReturnAsserted(pool)
    /\ \E b \in held \cup {[id |-> allocated + 1, size |-> n] : n \in BufferSizes} :
          pool_last' = PoolOp("assertion_failed", pool, b, NoBuffer, {})
    /\ UNCHANGED <<pool, held, borrows, returns, allocated, returned>>
    /\ UNCHANGED BufferVars

PoolContractNext ==
    \/ BorrowBuffer
    \/ FormatInto
    \/ ReturnBuffer
    \/ ReturnBufferAborts

\* the pool with callers that may also call return_buffer() against its contract
SpecPoolContract == InitPool /\ [][PoolContractNext]_vars

(* ---- properties of TransitEventBuffer ---- *)

Full(b) == size(b) = b.capacity

\* update_size() went through its resize path: it found the timer armed, saw at
\* most capacity/2 events and left the timer disarmed
Resized ==
    /\ last.op = "update_size"
    /\ last.pre.last_capacity_check # 0
    /\ size(last.pre) <= last.pre.capacity \div 2
    /\ buf.last_capacity_check = 0

\* C1: the events seen through front(), followed by the events still queued, are
\* exactly the events written, in the order written: nothing is lost, duplicated
\* or reordered, whatever expansions, compactions and shrinks happened in between.
C1_Fifo == observed \o Contents(buf) = [i \in 1..pushed |-> i]

\* a compaction has just moved at least two live events whose region wrapped
\* around the end of the old array, after some events had already been read
C1_Witness ==
    /\ Resized
    /\ buf.capacity < last.pre.capacity
    /\ size(buf) >= 2
    /\ FrontSlot(last.pre) + size(last.pre) > last.pre.capacity
    /\ Len(observed) >= 1

\* C2: capacity() never falls below initial_capacity.
C2_CapacityAtLeastInitial == buf.capacity >= buf.initial_capacity

\* C3: capacity() is a power of two and mask is capacity() - 1.
C3_PowerOfTwoAndMask ==
    /\ is_power_of_two(buf.capacity)
    /\ buf.mask = buf.capacity - 1

\* the capacity has just been changed by update_size() to a value other than
\* the initial one, with events queued
C3_Witness ==
    /\ Resized
    /\ buf.capacity # last.pre.capacity
    /\ buf.capacity # buf.initial_capacity
    /\ ~empty(buf)

\* C4: reader_pos <= writer_pos, and size() = writer_pos - reader_pos is at most
\* capacity().
C4_PositionsOrdered ==
    /\ buf.reader_pos <= buf.writer_pos
    /\ size(buf) = buf.writer_pos - buf.reader_pos
    /\ size(buf) <= capacity(buf)

\* a push has just filled a buffer whose positions have wrapped past the array
C4_Witness ==
    /\ last.op = "push_back"
    /\ Full(buf)
    /\ buf.writer_pos > buf.capacity
    /\ buf.capacity >= 2

\* C5: back() on a full buffer doubles capacity(), keeps size() and the queued
\* events in order at indices 0..size()-1 (reader_pos 0, writer_pos size()) and
\* returns the slot at index size(); back() on a buffer that is not full changes
\* neither the capacity nor the positions.
C5_BackExpandsExactlyWhenFull ==
    last.op = "back" =>
        IF Full(last.pre)
        THEN /\ capacity(buf) = 2 * capacity(last.pre)
             /\ size(buf) = size(last.pre)
             /\ buf.reader_pos = 0
             /\ buf.writer_pos = size(last.pre)
             /\ \A i \in 1..size(last.pre) : buf.storage[i - 1] = Contents(last.pre)[i]
             /\ Contents(buf) = Contents(last.pre)
             /\ slot = size(last.pre)
        ELSE /\ capacity(buf) = capacity(last.pre)
             /\ buf.reader_pos = last.pre.reader_pos
             /\ buf.writer_pos = last.pre.writer_pos

\* back() has just expanded a full buffer whose live region wrapped
C5_Witness ==
    /\ last.op = "back"
    /\ Full(last.pre)
    /\ last.pre.capacity >= 2
    /\ FrontSlot(last.pre) # 0

\* C6: try_shrink() on an empty buffer with a pending request leaves
\* capacity() = initial_capacity and the request cleared.
C6_ShrinkReturnsToInitial ==
    (last.op = "try_shrink" /\ last.pre.shrink_requested /\ empty(last.pre)) =>
        /\ capacity(buf) = buf.initial_capacity
        /\ ~buf.shrink_requested

\* C7: try_shrink() changes nothing when no request is pending or the buffer is
\* not empty.
C7_TryShrinkNoOp ==
    (last.op = "try_shrink" /\ ~(last.pre.shrink_requested /\ empty(last.pre))) =>
        buf = last.pre

\* try_shrink() was called with a request pending on an expanded, non-empty buffer
C7_Witness ==
    /\ last.op = "try_shrink"
    /\ last.pre.shrink_requested
    /\ ~empty(last.pre)
    /\ last.pre.capacity > last.pre.initial_capacity

\* C8: update_size() changes nothing when decay_period is zero or capacity()
\* equals initial_capacity.
C8_UpdateSizeNoOp ==
    (last.op = "update_size" /\ (last.decay = 0 \/ capacity(last.pre) = last.pre.initial_capacity)) =>
        buf = last.pre

\* update_size() was called with decay_period 0 on a buffer that a non-zero
\* period would have compacted: expanded, at most half full, timer long armed
C8_Witness ==
    /\ last.op = "update_size"
    /\ last.decay = 0
    /\ capacity(last.pre) > last.pre.initial_capacity
    /\ size(last.pre) <= capacity(last.pre) \div 2
    /\ last.pre.last_capacity_check # 0
    /\ last.ts - last.pre.last_capacity_check > MaxDecayMs * NsPerMs

\* C9: when update_size() resizes, the new capacity() is next_power_of_two of the
\* largest size() the update_size() calls saw from the arming call to this one.
C9_ResizeToObservedPeak ==
    Resized => capacity(buf) = next_power_of_two(window_peak)

(* ---- properties of FormatBufferPool ---- *)

ReturnSlot(p) == BitAnd(p.reader_pos, p.mask)

\* C10: return_buffer() stores the buffer in its slot exactly when the buffer's
\* size() is above 10240; the borrow_buffer() that reaches a slot hands out the
\* very buffer retained there, unchanged, and a freshly allocated empty buffer
\* when the buffer returned there was not above 10240 (the slot stayed empty);
\* no retained buffer is dropped by an expansion before it is handed out.
C10_Retention ==
    /\ pool_last.op = "return_buffer" =>
          pool.storage[ReturnSlot(pool_last.pre)] =
              IF pool_last.buffer.size > 10240 THEN pool_last.buffer ELSE NoBuffer
    /\ pool_last.op = "borrow_buffer" =>
          /\ pool_last.lost = {}
          /\ IF pool_last.offered # NoBuffer /\ pool_last.offered.size > 10240
             THEN pool_last.buffer = pool_last.offered
             ELSE pool_last.buffer = [id |-> allocated, size |-> 0]
                  /\ \A b \in held \ {pool_last.buffer} : b.id # allocated
                  /\ \A i \in DOMAIN pool.storage : pool.storage[i].id # allocated

\* a wrapped-around borrow_buffer() has just handed out a buffer that was
\* returned with more than 10240 bytes
C10_Witness ==
    /\ pool_last.op = "borrow_buffer"
    /\ pool_last.buffer.size > 10240
    /\ pool_last.buffer = pool_last.offered
    /\ pool.writer_pos > pool.capacity

\* return_buffer() has just been called: accepted, or rejected by its assertion
ReturnCalled == pool_last.op \in {"return_buffer", "assertion_failed"}

\* C11 as stated: a return_buffer() call on a full pool is rejected by the assertion.
C11_FullPoolRejected ==
    (ReturnCalled /\ Full(pool_last.pre)) => pool_last.op = "assertion_failed"

\* C11: the assertion of return_buffer() rejects exactly the calls made while the
\* pool is empty (size() = 0, nothing on loan); a call on a full pool is accepted.
C11_EmptyPoolRejected ==
    ReturnCalled =>
        /\ pool_last.op = "assertion_failed" <=> size(pool_last.pre) = 0
        /\ Full(pool_last.pre) => pool_last.op = "return_buffer"

\* the assertion has just stopped a return into a pool that had handed out and
\* taken back buffers before
C11_Witness ==
    /\ pool_last.op = "assertion_failed"
    /\ returns >= 1
    /\ pool_last.pre.reader_pos = pool_last.pre.writer_pos

\* C12: every slot at a position in [reader_pos, writer_pos) holds no buffer, no
\* buffer a borrower holds is also in a slot (nor in two slots), and a pool that
\* expands has nothing retained that the expansion could drop.
C12_SingleOwnership ==
    /\ \A q \in pool.reader_pos..(pool.writer_pos - 1) :
          pool.storage[BitAnd(q, pool.mask)] = NoBuffer
    /\ \A b \in held : \A i \in DOMAIN pool.storage : pool.storage[i].id # b.id
    /\ \A i, j \in DOMAIN pool.storage :
          (i # j /\ pool.storage[i] # NoBuffer) => pool.storage[i].id # pool.storage[j].id
    /\ (pool_last.op = "borrow_buffer" /\ Full(pool_last.pre)) =>
          /\ \A i \in DOMAIN pool_last.pre.storage : pool_last.pre.storage[i] = NoBuffer
          /\ pool_last.lost = {}

\* a retained buffer has just been handed out again while another retained buffer
\* still sits in the pool
C12_Witness ==
    /\ pool_last.op = "borrow_buffer"
    /\ pool_last.buffer.size > 10240
    /\ pool_last.buffer \in held
    /\ \E i \in DOMAIN pool.storage : pool.storage[i] # NoBuffer

\* C18: size() is the number of borrows minus the number of returns and at most
\* capacity(); every return_buffer() lowers size() by exactly one, retained or
\* not; capacity() never decreases and changes only by doubling, in a
\* borrow_buffer() made while the pool is full.
C18_Occupancy ==
    /\ size(pool) = borrows - returns
    /\ size(pool) = Cardinality(held)
    /\ size(pool) <= capacity(pool)
    /\ pool_last.op = "return_buffer" =>
          /\ size(pool) = size(pool_last.pre) - 1
          /\ capacity(pool) = capacity(pool_last.pre)
    /\ pool_last.op = "borrow_buffer" =>
          /\ size(pool) = size(pool_last.pre) + 1
          /\ capacity(pool) = IF Full(pool_last.pre)
                              THEN 2 * capacity(pool_last.pre)
                              ELSE capacity(pool_last.pre)
    /\ capacity(pool) >= capacity(pool_last.pre)

\* a buffer too small to keep has just been returned to a pool that has doubled
\* twice, leaving other buffers on loan
C18_Witness ==
    /\ pool_last.op = "return_buffer"
    /\ pool_last.buffer.size <= 10240
    /\ pool.storage[ReturnSlot(pool_last.pre)] = NoBuffer
    /\ capacity(pool) >= 4
    /\ size(pool) >= 1

(* ---- further properties of TransitEventBuffer ---- *)

\* update_size() has just been called with the timer armed, capacity() other than
\* initial_capacity, a non-zero decay_period and at most capacity()/2 events queued
DecayDue ==
    /\ last.op = "update_size"
    /\ last.decay > 0
    /\ last.pre.last_capacity_check # 0
    /\ capacity(last.pre) # last.pre.initial_capacity
    /\ size(last.pre) <= capacity(last.pre) \div 2

\* nanoseconds between the arming of the timer and the ts of the last update_size()
Elapsed == last.ts - last.pre.last_capacity_check

\* the last update_size() returned without touching storage, capacity, positions or timer
Waited ==
    /\ buf.storage = last.pre.storage
    /\ buf.capacity = last.pre.capacity
    /\ buf.reader_pos = last.pre.reader_pos
    /\ buf.writer_pos = last.pre.writer_pos
    /\ buf.last_capacity_check = last.pre.last_capacity_check

\* C14 as stated: the call waits while ts - t0 < decay_period and resizes once
\* ts - t0 >= decay_period.
C14_ResizeAtOrAfterPeriod ==
    DecayDue =>
        IF Elapsed < last.decay * NsPerMs THEN Waited ELSE Resized /\ ~Waited

\* C14: the call waits while ts - t0 <= decay_period and resizes only once
\* ts - t0 is strictly greater than decay_period.
C14_ResizeAfterPeriod ==
    DecayDue =>
        IF Elapsed <= last.decay * NsPerMs THEN Waited ELSE Resized /\ ~Waited

\* update_size() was called exactly decay_period after the timer was armed
C14_Witness ==
    /\ DecayDue
    /\ Elapsed = last.decay * NsPerMs

\* C17: a pending shrink request survives every operation except a try_shrink()
\* on an empty buffer, which clears it; request_shrink() sets it, and a second
\* request_shrink() changes nothing.
C17_RequestSticky ==
    /\ (last.pre.shrink_requested /\ ~(last.op = "try_shrink" /\ empty(last.pre))) =>
          buf.shrink_requested
    /\ (last.op = "try_shrink" /\ empty(last.pre)) => ~buf.shrink_requested
    /\ last.op = "request_shrink" =>
          /\ buf.shrink_requested
          /\ last.pre.shrink_requested => buf = last.pre

\* try_shrink() has just cleared a request on an empty buffer that had nothing to
\* give back (capacity() not above initial_capacity) after events went through it
C17_Witness ==
    /\ last.op = "try_shrink"
    /\ last.pre.shrink_requested
    /\ empty(last.pre)
    /\ capacity(last.pre) <= last.pre.initial_capacity
    /\ Len(observed) >= 1

\* C16: update_size() never increases capacity().
C16_UpdateSizeNeverGrows ==
    last.op = "update_size" => capacity(buf) <= capacity(last.pre)

\* the last update_size() call looked at the occupancy and saw more than capacity()/2
SawHighOccupancy ==
    /\ last.op = "update_size"
    /\ last.decay # 0
    /\ capacity(last.pre) # last.pre.initial_capacity
    /\ size(last.pre) > capacity(last.pre) \div 2

\* C15: an update_size() call that sees size() > capacity()/2 zeroes the peak and
\* disarms the timer without resizing; an expansion in back() disarms the timer;
\* and update_size() resizes only while a window is open, that is after an arming
\* call with no high-occupancy call and no expansion since.
C15_ResizeOnlyAfterQuietWindow ==
    [][ /\ SawHighOccupancy' =>
              (/\ buf.max_size = 0
               /\ buf.last_capacity_check = 0
               /\ buf.storage = last.pre.storage
               /\ buf.capacity = last.pre.capacity
               /\ buf.reader_pos = last.pre.reader_pos
               /\ buf.writer_pos = last.pre.writer_pos)'
        /\ (last.op = "back" /\ Full(last.pre))' => (buf.last_capacity_check = 0)'
        /\ Resized' => window_open ]_vars

\* update_size() has just resized on a peak that an earlier call of the same
\* window had seen, in a buffer that had expanded more than once
C15_Witness ==
    /\ Resized
    /\ last.pre.max_size > size(last.pre)
    /\ ~window_open
    /\ capacity(last.pre) >= 4 * last.pre.initial_capacity

\* update_size() or try_shrink() ran between the last back() and its push_back()
MaintainedBetween == last.op = "push_back" /\ since_back # {}

\* C20: the element written into the slot returned by back() is the element at the
\* tail of the queue after push_back(), whatever update_size() and try_shrink()
\* calls were made between the two.
C20_SlotSurvivesMaintenance ==
    MaintainedBetween => Contents(buf)[size(buf)] = pushed

\* C20 (amended): the same, when none of the update_size() and try_shrink() calls
\* between back() and push_back() replaced the storage array.
C20_SlotSurvivesWithoutReallocation ==
    MaintainedBetween /\ "reallocated" \notin since_back
        => Contents(buf)[size(buf)] = pushed

\* both maintenance calls ran between back() and push_back(), neither reallocated,
\* and the event was published behind an older one in an expanded buffer
C20_Witness ==
    /\ MaintainedBetween
    /\ since_back = {"update_size", "try_shrink"}
    /\ size(buf) >= 2
    /\ capacity(buf) > buf.initial_capacity
    /\ Contents(buf)[size(buf)] = pushed

\* C13: a move gives the destination the source's storage contents, capacity,
\* reader_pos and writer_pos, and leaves the source with capacity() == 0,
\* size() == 0 and no storage.
C13_MoveTransfers ==
    last.op = "move" =>
        /\ buf.storage = last.pre.storage
        /\ Contents(buf) = Contents(last.pre)
        /\ capacity(buf) = capacity(last.pre)
        /\ buf.reader_pos = last.pre.reader_pos
        /\ buf.writer_pos = last.pre.writer_pos
        /\ capacity(moves[1].source) = 0
        /\ size(moves[1].source) = 0
        /\ DOMAIN moves[1].source.storage = {}

\* an expanded buffer holding events behind a reader position that is not 0 has
\* just been moved
C13_Witness ==
    /\ last.op = "move"
    /\ size(buf) >= 2
    /\ buf.reader_pos > 0
    /\ capacity(buf) > last.pre.initial_capacity
    /\ Contents(buf) = Contents(last.pre)

\* C19: the destination of a move carries over the source's initial_capacity and
\* pending shrink request, so capacity() >= initial_capacity holds for it and a
\* later try_shrink() returns it to the source's initial capacity.
C19_MoveCarriesShrinkState ==
    last.op = "move" =>
        /\ buf.initial_capacity = last.pre.initial_capacity
        /\ buf.shrink_requested = last.pre.shrink_requested
        /\ capacity(buf) >= buf.initial_capacity
        /\ capacity(try_shrink(buf)) =
               IF last.pre.shrink_requested /\ empty(last.pre)
               THEN last.pre.initial_capacity ELSE capacity(last.pre)

====
